---- MODULE Spec2Model ----
(***************************************************************************)
(* Model of react-shopping-cart: the Product form                          *)
(* (src/src/components/Product/Product.js), the cart collection kept by    *)
(* the README's "Without redux" App (src/examples/example1/app.js) and     *)
(* the pure functions both rely on.                                        *)
(*                                                                         *)
(* JavaScript objects are sequences of entries [k, v] in insertion order   *)
(* (the order Object.entries yields for non-integer keys); money amounts   *)
(* are integers counting hundredths, so 3.50 is 350 and 73.5 is 7350.      *)
(***************************************************************************)
EXTENDS Integers, Sequences, FiniteSets, TLC

VARIABLES
  mounted,        \* whether the Product instance is mounted
  props,          \* Product props: the product definition and the currency
  state,          \* Product this.state: quantity and the selected indexes
  scrollTimeout,  \* Product this.scrollTimeout: 0 (undefined) or a timer id
  pendingTimers,  \* timers set by setTimeout that neither fired nor were cleared
  products,       \* App this.state.products: entries product key -> line item
  calls,          \* the onAddProduct invocations so far, oldest first
  args,           \* inputs of a pure function under test
  result,         \* what the function returned for args
  updaters,       \* README App: setState updaters queued and not yet applied
  consoleLog,     \* README App: the last line written with console.log
  app,            \* example App this.state: lang, currency, localizationGetters
  store,          \* the redux store's cart: currency and products
  dispatched      \* the actions dispatched to the store so far, oldest first

\* the variables of the README App's callbacks and of the example App
readmeVars == <<updaters, consoleLog>>
appVars == <<app, store, dispatched>>

vars == <<mounted, props, state, scrollTimeout, pendingTimers, products, calls, args, result,
          readmeVars, appVars>>

(***************************************************************************)
(* Bounds                                                                  *)
(***************************************************************************)
MaxQuantity == 3       \* quantities typed into the form
MaxSubmits == 2        \* submissions that add to the cart
MaxIndex == 2          \* selected indexes drawn for the pure functions
MaxProps == 2          \* entries of a resolved property map drawn for keys
MaxDispatches == 3     \* currency changes dispatched to the store
MaxDepth == 3          \* nested getLocalization calls the call stack holds

(***************************************************************************)
(* JavaScript values                                                       *)
(***************************************************************************)
Undefined == [t |-> "undefined", s |-> "", n |-> 0]
Str(s) == [t |-> "string", s |-> s, n |-> 0]
Num(n) == [t |-> "number", s |-> "", n |-> n]

\* String(value) as Array.prototype.join applies it: undefined gives ''
ToStr(v) ==
  IF v.t = "string" THEN v.s
  ELSE IF v.t = "number" THEN ToString(v.n)
  ELSE ""

\* An option of a property: a bare scalar or { value, additionalCost? }.
Scalar(v) == [kind |-> "scalar", value |-> v, hasAdditionalCost |-> FALSE, additionalCost |-> <<>>]
Option(v) == [kind |-> "object", value |-> v, hasAdditionalCost |-> FALSE, additionalCost |-> <<>>]
OptionWithCost(v, cost) == [kind |-> "object", value |-> v, hasAdditionalCost |-> TRUE, additionalCost |-> cost]
NoOption == [kind |-> "undefined", value |-> Undefined, hasAdditionalCost |-> FALSE, additionalCost |-> <<>>]

\* typeof of an element read from an options array
TypeOf(option) ==
  IF option.kind = "scalar" THEN option.value.t ELSE option.kind

(***************************************************************************)
(* Objects as entry sequences                                              *)
(***************************************************************************)
Entry(k, v) == [k |-> k, v |-> v]
Keys(obj) == {obj[i].k : i \in 1..Len(obj)}
Has(obj, k) == \E i \in 1..Len(obj) : obj[i].k = k
Get(obj, k) == obj[CHOOSE i \in 1..Len(obj) : obj[i].k = k].v

\* { ...obj, [k]: v }
Put(obj, k, v) ==
  IF Has(obj, k)
    THEN [i \in 1..Len(obj) |-> IF obj[i].k = k THEN Entry(k, v) ELSE obj[i]]
    ELSE Append(obj, Entry(k, v))

\* { [k]: dropped, ...rest } = obj
Rest(obj, k) == SelectSeq(obj, LAMBDA e : e.k # k)

\* array[index]: undefined outside the array
At(options, index) ==
  IF index \in 0 .. Len(options) - 1 THEN options[index + 1] ELSE NoOption

\* selectedPropertyIndexes[propName]|0 : a missing index reads as 0
IndexOr0(selectedPropertyIndexes, propName) ==
  IF propName \in DOMAIN selectedPropertyIndexes
    THEN selectedPropertyIndexes[propName]
    ELSE 0

(***************************************************************************)
(* Product's static functions                                              *)
(***************************************************************************)
\* the additional cost taken from the option's first currency, whatever is asked
optionAdditionalCostAnyCurrency(selectedOption, currency) ==
  IF /\ TypeOf(selectedOption) = "object"
     /\ selectedOption.hasAdditionalCost
     /\ Len(selectedOption.additionalCost) > 0
    THEN selectedOption.additionalCost[1].v
    ELSE 0

\* typeof selectedOption === 'object'
\*   && (selectedOption.additionalCost && selectedOption.additionalCost[currency]) || 0
optionAdditionalCost(selectedOption, currency) ==
  IF /\ TypeOf(selectedOption) = "object"
     /\ selectedOption.hasAdditionalCost
     /\ Has(selectedOption.additionalCost, currency)
     /\ Get(selectedOption.additionalCost, currency) # 0
    THEN Get(selectedOption.additionalCost, currency)
    ELSE 0

\* the reduce of calculateAdditionalCost over the first n entries, from sum 0
RECURSIVE reduceAdditionalCost(_, _, _, _)
reduceAdditionalCost(properties, selectedPropertyIndexes, currency, n) ==
  IF n = 0 THEN 0
  ELSE reduceAdditionalCost(properties, selectedPropertyIndexes, currency, n - 1)
       + optionAdditionalCost(
           At(properties[n].v, IndexOr0(selectedPropertyIndexes, properties[n].k)),
           currency)

calculateAdditionalCost(properties, selectedPropertyIndexes, currency) ==
  reduceAdditionalCost(properties, selectedPropertyIndexes, currency, Len(properties))

\* ProductPropertyInput.getOptionValue: the plain value of an option
getOptionValue(option) ==
  IF TypeOf(option) = "object" THEN option.value
  ELSE IF option.kind = "scalar" THEN option.value
  ELSE Undefined

\* the properties resolved to each property's first option, whatever is selected
RECURSIVE reducePropertiesFirstOption(_, _, _)
reducePropertiesFirstOption(properties, selectedPropertyIndexes, n) ==
  IF n = 0 THEN <<>>
  ELSE Put(reducePropertiesFirstOption(properties, selectedPropertyIndexes, n - 1),
           properties[n].k,
           getOptionValue(At(properties[n].v, 0)))

\* the reduce building the properties of the cart product
RECURSIVE reduceProperties(_, _, _)
reduceProperties(properties, selectedPropertyIndexes, n) ==
  IF n = 0 THEN <<>>
  ELSE Put(reduceProperties(properties, selectedPropertyIndexes, n - 1),
           properties[n].k,
           getOptionValue(
             At(properties[n].v, IndexOr0(selectedPropertyIndexes, properties[n].k))))

\* the price table copied from the base prices, without the additional cost
RECURSIVE reducePricesBaseOnly(_, _, _, _)
reducePricesBaseOnly(prices, properties, selectedPropertyIndexes, n) ==
  IF n = 0 THEN <<>>
  ELSE Put(reducePricesBaseOnly(prices, properties, selectedPropertyIndexes, n - 1),
           prices[n].k, prices[n].v)

\* the reduce building productInfo.prices
RECURSIVE reducePrices(_, _, _, _)
reducePrices(prices, properties, selectedPropertyIndexes, n) ==
  IF n = 0 THEN <<>>
  ELSE Put(reducePrices(prices, properties, selectedPropertyIndexes, n - 1),
           prices[n].k,
           prices[n].v
             + calculateAdditionalCost(properties, selectedPropertyIndexes, prices[n].k))

generateCartProduct(product, quantity, selectedPropertyIndexes) ==
  [ id |-> product.id,
    quantity |-> quantity,
    properties |->
      reduceProperties(product.properties, selectedPropertyIndexes,
                       Len(product.properties)),
    productInfo |->
      [ name |-> product.name,
        prices |->
          reducePrices(product.prices, product.properties, selectedPropertyIndexes,
                       Len(product.prices)),
        path |-> product.path,
        imagePath |-> product.imagePath,
        propertiesToShowInCart |-> product.propertiesToShowInCart ] ]

(***************************************************************************)
(* The README App's cart functions                                         *)
(***************************************************************************)
\* Object.entries(properties).join('_'): each entry prints as name,value
RECURSIVE joinEntries(_, _)
joinEntries(properties, n) ==
  IF n = 0 THEN ""
  ELSE (IF n = 1 THEN "" ELSE joinEntries(properties, n - 1) \o "_")
       \o properties[n].k \o "," \o ToStr(properties[n].v)

\* `${id}/${Object.entries(properties).join('_')}`
generateProductKey(id, properties) ==
  id \o "/" \o joinEntries(properties, Len(properties))

\* addProduct storing the incoming quantity without the quantity already in the cart
addProductNoSum(oldProducts, key, product) ==
  Append(Rest(oldProducts, key), Entry(key, product))

\* addProduct adding a line without taking the line of the same key out
addProductNoRest(oldProducts, key, product) ==
  LET cartQuantity == IF Has(oldProducts, key) THEN Get(oldProducts, key).quantity ELSE 0
  IN  Append(oldProducts,
             Entry(key, [product EXCEPT !.quantity = product.quantity + cartQuantity]))

\* addProduct keeping only the line of the added key
addProductOnlyKey(oldProducts, key, product) ==
  LET cartQuantity == IF Has(oldProducts, key) THEN Get(oldProducts, key).quantity ELSE 0
  IN  <<Entry(key, [product EXCEPT !.quantity = product.quantity + cartQuantity])>>

\* the updater addProduct hands to setState, applied to the products it receives
addProduct(oldProducts, key, product) ==
  LET cartQuantity == IF Has(oldProducts, key) THEN Get(oldProducts, key).quantity ELSE 0
      restOfProducts == Rest(oldProducts, key)
  IN  Append(restOfProducts,
             Entry(key, [product EXCEPT !.quantity = product.quantity + cartQuantity]))

(***************************************************************************)
(* The quantity input                                                      *)
(***************************************************************************)
NaN == [nan |-> TRUE, num |-> 0, den |-> 1]
DigitChars == {ToString(d) : d \in 0..9}
DigitValue(c) == CHOOSE d \in 0..9 : ToString(d) = c

RECURSIVE Pow10(_)
Pow10(n) == IF n = 0 THEN 1 ELSE 10 * Pow10(n - 1)

RECURSIVE digitsValue(_, _)
digitsValue(digits, n) ==
  IF n = 0 THEN 0 ELSE 10 * digitsValue(digits, n - 1) + DigitValue(digits[n])

\* +value for a string of sign, digits and decimal point (no exponent, no
\* white space): '' is 0, a malformed literal is NaN, else num/den.
ToNumber(value) ==
  LET signed == Len(value) > 0 /\ value[1] \in {"-", "+"}
      body == IF signed THEN Tail(value) ELSE value
      dots == {i \in 1..Len(body) : body[i] = "."}
      digits == SelectSeq(body, LAMBDA c : c \in DigitChars)
      wellFormed ==
        /\ \A i \in 1..Len(body) : body[i] \in DigitChars \cup {"."}
        /\ Cardinality(dots) <= 1
        /\ Len(digits) >= 1
      decimals == IF dots = {} THEN 0 ELSE Len(body) - (CHOOSE i \in dots : TRUE)
      magnitude == digitsValue(digits, Len(digits))
  IN  IF Len(value) = 0 THEN [nan |-> FALSE, num |-> 0, den |-> 1]
      ELSE IF ~wellFormed THEN NaN
      ELSE [ nan |-> FALSE,
             num |-> IF signed /\ value[1] = "-" THEN 0 - magnitude ELSE magnitude,
             den |-> Pow10(decimals) ]

\* helpers.isNaturalNumber: a positive integer
isNaturalNumber(number) ==
  /\ ~number.nan
  /\ number.num % number.den = 0
  /\ number.num > 0

\* values of event.target.value the quantity input is driven with
QuantityInputs ==
  {<<ToString(n)>> : n \in 0..MaxQuantity}
    \cup { <<>>, <<"a">>, <<"-", "1">>, <<"0", "2">>, <<".", "5">>,
           <<"1", ".", "5">>, <<"2", ".", "0">> }

\* +value of each of these inputs, worked out once
NumberOfInput == [value \in QuantityInputs |-> ToNumber(value)]

\* const quantity = +value
numberOf(value) ==
  IF value \in DOMAIN NumberOfInput THEN NumberOfInput[value] ELSE ToNumber(value)

(***************************************************************************)
(* Product definitions the form is instantiated with                       *)
(***************************************************************************)
ProductProps(id, name, prices, properties, propertiesToShowInCart) ==
  [ id |-> id, name |-> name, path |-> "/shop/" \o id \o "/",
    imagePath |-> id \o ".jpeg", prices |-> prices, currency |-> prices[1].k,
    properties |-> properties, propertiesToShowInCart |-> propertiesToShowInCart ]

\* base price USD 70, colour red or yellow (+3.50 USD)
MacbookCase ==
  ProductProps("m", "macbookCase",
    <<Entry("GBP", 5000), Entry("USD", 7000)>>,
    <<Entry("colour",
        <<Scalar(Str("red")),
          OptionWithCost(Str("yellow"), <<Entry("USD", 350)>>)>>)>>,
    <<"colour">>)

\* the first option is the one that costs extra
PurpleCase ==
  ProductProps("p", "purpleCase",
    <<Entry("GBP", 5000), Entry("USD", 7000)>>,
    <<Entry("colour",
        <<OptionWithCost(Str("purple"), <<Entry("GBP", 1000), Entry("USD", 2000)>>),
          Option(Str("green")),
          Scalar(Str("red"))>>)>>,
    <<"colour">>)

\* a property that is itself called quantity
PackedCase ==
  ProductProps("q", "packedCase",
    <<Entry("USD", 900)>>,
    <<Entry("quantity",
        <<Scalar(Str("single")),
          OptionWithCost(Str("pack"), <<Entry("USD", 500)>>)>>)>>,
    <<"quantity">>)

\* two properties; two colour options share a value, the sizes 1 and '1' print alike
TwoPropertyCase ==
  ProductProps("t", "twoPropertyCase",
    <<Entry("USD", 1000)>>,
    <<Entry("colour",
        <<Scalar(Str("red")),
          OptionWithCost(Str("red"), <<Entry("USD", 100)>>)>>),
      Entry("size",
        <<Scalar(Num(1)), Scalar(Str("1"))>>)>>,
    <<"colour", "size">>)

\* defaultProps: properties {} and propertiesToShowInCart []
PlainCase ==
  ProductProps("n", "plainCase", <<Entry("EUR", 6000), Entry("USD", 900)>>, <<>>, <<>>)

\* two properties, the second with a single option
SizedCase ==
  ProductProps("s", "sizedCase",
    <<Entry("USD", 1000)>>,
    <<Entry("colour",
        <<Scalar(Str("red")),
          OptionWithCost(Str("red"), <<Entry("USD", 100)>>)>>),
      Entry("size", <<Scalar(Num(1))>>)>>,
    <<"colour", "size">>)

\* the definitions the pure functions are applied to
ProductDefs == {MacbookCase, PurpleCase, PackedCase, TwoPropertyCase, SizedCase, PlainCase}

\* the definitions a form is mounted with
FormProducts == {MacbookCase, PackedCase, SizedCase, PlainCase}

(***************************************************************************)
(* The Product form                                                        *)
(***************************************************************************)
\* const { quantity, ...selectedPropertyIndexes } = this.state
selectedPropertyIndexesOf(st) ==
  [name \in DOMAIN st \ {"quantity"} |-> st[name]]

\* this.setState(partial): a shallow merge into this.state
setState(st, partial) ==
  [name \in DOMAIN st \cup DOMAIN partial |->
     IF name \in DOMAIN partial THEN partial[name] ELSE st[name]]

\* the price rounded down to whole currency units
priceRounded ==
  ( ( Get(props.prices, props.currency)
      + calculateAdditionalCost(props.properties, selectedPropertyIndexesOf(state),
                                props.currency) ) \div 100 ) * 100

\* render: const price = prices[currency] + calculateAdditionalCost(...)
price ==
  Get(props.prices, props.currency)
    + calculateAdditionalCost(props.properties, selectedPropertyIndexesOf(state),
                              props.currency)

\* undefined + number
NaNPrice == [t |-> "number", s |-> "NaN", n |-> 0]

\* render's price for a form with these props and selected indexes
displayedPrice(product, selectedPropertyIndexes, currency) ==
  IF Has(product.prices, currency)
    THEN Num(Get(product.prices, currency)
             + calculateAdditionalCost(product.properties, selectedPropertyIndexes, currency))
    ELSE NaNPrice

(***************************************************************************)
(* Cart                                                                    *)
(***************************************************************************)
DefaultLinkComponent == "DefaultLinkComponent"

\* Cart.defaultProps: a prop the caller leaves out takes its default
withDefaultProps(cartProps) ==
  IF Has(cartProps, "linkComponent")
    THEN cartProps
    ELSE Put(cartProps, "linkComponent", DefaultLinkComponent)

\* a Cart that shows every item at the first price of its table
CartRenderFirstPrice(cartProps) ==
  LET cartProducts == Get(cartProps, "products")
      currency == Get(cartProps, "currency")
  IN  [i \in 1..Len(cartProducts) |->
         LET productKey == cartProducts[i].k
             product == cartProducts[i].v
             prices == product.productInfo.prices
         IN  [productKey |-> productKey,
              quantity |-> product.quantity,
              properties |-> product.properties,
              price |-> Num(prices[1].v),
              currency |-> currency,
              path |-> product.productInfo.path,
              name |-> product.productInfo.name,
              imagePath |-> product.productInfo.imagePath,
              propertiesToShow |-> product.productInfo.propertiesToShowInCart,
              linkComponent |-> DefaultLinkComponent]]

\* the props of the CartProduct elements Cart.render returns, one per entry
CartRender(cartProps) ==
  LET cartProducts == Get(cartProps, "products")
      currency == Get(cartProps, "currency")
  IN  [i \in 1..Len(cartProducts) |->
         LET productKey == cartProducts[i].k
             product == cartProducts[i].v
             prices == product.productInfo.prices
         IN  [productKey |-> productKey,
              quantity |-> product.quantity,
              properties |-> product.properties,
              price |-> IF Has(prices, currency) THEN Num(Get(prices, currency))
                                                 ELSE Undefined,
              currency |-> currency,
              path |-> product.productInfo.path,
              name |-> product.productInfo.name,
              imagePath |-> product.productInfo.imagePath,
              propertiesToShow |-> product.productInfo.propertiesToShowInCart,
              linkComponent |-> DefaultLinkComponent]]

(***************************************************************************)
(* README "Without redux" App: the callbacks it passes to Product and Cart *)
(***************************************************************************)
\* this.setState(updater): React keeps the updater until it applies it to the
\* state of that moment; seen is this.state.products when addProduct was called
queuedUpdater(key, product, seen) == [key |-> key, product |-> product, seen |-> seen]

\* an updater that works from the products read when addProduct was called
runUpdaterStale(oldProducts, updater) ==
  addProduct(updater.seen, updater.key, updater.product)

\* React calls the updater with the state of the moment it is applied
runUpdater(oldProducts, updater) ==
  addProduct(oldProducts, updater.key, updater.product)

\* updateProduct = (key, updatedProduct) => void console.log(':)')
updateProduct(oldProducts, key, updatedProduct) == oldProducts

\* removeProduct = key => void console.log(':C')
removeProduct(oldProducts, key) == oldProducts

(***************************************************************************)
(* Example App: language, currency, localization getters, the store's cart *)
(***************************************************************************)
LanguageInputs == {"en", "fr"}
CurrencyInputs == {"GBP", "EUR", "USD"}
LocalizationScopes == {"product", "cart", "checkoutButton"}

\* getDefaultLocalization returns a function closed over its three arguments
getDefaultLocalization(scope, lang, localization) ==
  [scope |-> scope, lang |-> lang, localization |-> localization]

\* a function object: what it closes over, and which allocation it is
FunctionObject(ref, closure) == [ref |-> ref, closure |-> closure]

localizationGetters ==
  [lang \in LanguageInputs |->
     LET first == IF lang = "en" THEN 0 ELSE 3
     IN  [product |->
            FunctionObject(first + 1,
              getDefaultLocalization("product", lang, "localization." \o lang \o ".product")),
          cart |->
            FunctionObject(first + 2,
              getDefaultLocalization("cart", lang, "localization." \o lang \o ".cart")),
          checkoutButton |->
            FunctionObject(first + 3,
              getDefaultLocalization("checkoutButton", lang,
                                     "localization." \o lang \o ".checkoutButton"))]]

AppState ==
  [lang |-> "en", currency |-> "USD", localizationGetters |-> localizationGetters]

\* the action creator and the cart reducer of the store
setCartCurrency(currency) == [type |-> "cart/setCurrency", currency |-> currency]

DefaultCartCurrency == "USD"

\* a reducer that keeps the currency it has
cartCurrencyReducerKeeps(currency, action) == currency

cartCurrencyReducer(currency, action) ==
  IF action.type = "cart/setCurrency" THEN action.currency ELSE currency

cartReducer(cart, action) ==
  [cart EXCEPT !.currency = cartCurrencyReducer(cart.currency, action)]

\* render with the English getters whatever the language
AppRenderEnglish ==
  [Product |-> app.localizationGetters["en"].product,
   Cart |-> app.localizationGetters["en"].cart,
   CheckoutButton |-> app.localizationGetters["en"].checkoutButton]

\* the getLocalization prop that App.render passes to each component
AppRender ==
  [Product |-> app.localizationGetters[app.lang].product,
   Cart |-> app.localizationGetters[app.lang].cart,
   CheckoutButton |-> app.localizationGetters[app.lang].checkoutButton]

NoArgs == [fn |-> "none"]
NoResult == [fn |-> "none"]

Init ==
  /\ props \in {[d EXCEPT !.currency = c] : d \in FormProducts, c \in {"GBP", "USD"}}
  /\ Has(props.prices, props.currency)
  /\ mounted = TRUE
  /\ state = ("quantity" :> 1)
  /\ scrollTimeout = 0
  /\ pendingTimers = {}
  /\ products = <<>>
  /\ calls = <<>>
  /\ args = NoArgs
  /\ result = NoResult
  /\ updaters = <<>>
  /\ consoleLog = ""
  /\ app = AppState
  /\ store = [currency |-> DefaultCartCurrency, products |-> <<>>]
  /\ dispatched = <<>>

\* the quantity stored whenever the input is a number, natural or not
handleQuantityValueChangeUnchecked(value) ==
  LET quantity == numberOf(value)
  IN  /\ mounted
      /\ IF ~quantity.nan
           THEN /\ quantity.num \div quantity.den <= MaxQuantity
                /\ state' = setState(state, "quantity" :> (quantity.num \div quantity.den))
           ELSE state' = state
      /\ UNCHANGED <<mounted, props, scrollTimeout, pendingTimers, products, calls, args, result, readmeVars, appVars>>

handleQuantityValueChange(value) ==
  LET quantity == numberOf(value)
  IN  /\ mounted
      /\ IF isNaturalNumber(quantity)
           THEN /\ quantity.num \div quantity.den <= MaxQuantity
                /\ state' = setState(state, "quantity" :> (quantity.num \div quantity.den))
           ELSE state' = state
      /\ UNCHANGED <<mounted, props, scrollTimeout, pendingTimers, products, calls, args, result, readmeVars, appVars>>

\* called by ProductPropertyInput with { value: { [name]: index of the chosen option } }
hanglePropertyValueChange(name, index) ==
  /\ mounted
  /\ state' = setState(state, name :> index)
  /\ UNCHANGED <<mounted, props, scrollTimeout, pendingTimers, products, calls, args, result, readmeVars, appVars>>

\* a clearScrollTimeout that leaves the timer it holds running
clearScrollTimeoutKeeps(timers) == timers

\* clearScrollTimeout: clearTimeout(this.scrollTimeout) when it is defined
clearScrollTimeout(timers) ==
  IF scrollTimeout # 0 THEN timers \ {scrollTimeout} ELSE timers

\* a submit that calls onAddProduct whatever the quantity
addProductFormSubmitUnguarded ==
  LET quantity == state["quantity"]
      selectedPropertyIndexes == selectedPropertyIndexesOf(state)
      timer == Len(calls) + 1
      product == generateCartProduct(props, quantity, selectedPropertyIndexes)
      key == generateProductKey(props.id, product.properties)
  IN  /\ mounted
      /\ Len(calls) < MaxSubmits
      /\ pendingTimers' = clearScrollTimeout(pendingTimers) \cup {timer}
      /\ scrollTimeout' = timer
      /\ calls' = Append(calls, [key |-> key, product |-> product,
                                 currency |-> props.currency])
      /\ products' = addProduct(products, key, product)
      /\ UNCHANGED <<mounted, props, state, args, result, readmeVars, appVars>>

\* a submit that puts the quantity back to 1 after adding
addProductFormSubmitResets ==
  LET quantity == state["quantity"]
      selectedPropertyIndexes == selectedPropertyIndexesOf(state)
      timer == Len(calls) + 1
      product == generateCartProduct(props, quantity, selectedPropertyIndexes)
      key == generateProductKey(props.id, product.properties)
  IN  /\ mounted
      /\ IF quantity # 0
        THEN /\ Len(calls) < MaxSubmits
             /\ pendingTimers' = clearScrollTimeout(pendingTimers) \cup {timer}
             /\ scrollTimeout' = timer
             /\ calls' = Append(calls, [key |-> key, product |-> product,
                                        currency |-> props.currency])
             /\ products' = addProduct(products, key, product)
             /\ state' = setState(state, "quantity" :> 1)
             /\ UNCHANGED <<mounted, props, args, result, readmeVars, appVars>>
        ELSE UNCHANGED vars

addProductFormSubmit ==
  LET quantity == state["quantity"]
      selectedPropertyIndexes == selectedPropertyIndexesOf(state)
      timer == Len(calls) + 1
      product == generateCartProduct(props, quantity, selectedPropertyIndexes)
      key == generateProductKey(props.id, product.properties)
  IN  /\ mounted
      /\ IF quantity # 0
        THEN /\ Len(calls) < MaxSubmits
             /\ pendingTimers' = clearScrollTimeout(pendingTimers) \cup {timer}
             /\ scrollTimeout' = timer
             /\ calls' = Append(calls, [key |-> key, product |-> product,
                                        currency |-> props.currency])
             /\ products' = addProduct(products, key, product)
             /\ UNCHANGED <<mounted, props, state, args, result, readmeVars, appVars>>
        ELSE UNCHANGED vars

\* a timer callback that also puts the form's quantity back to 1
scrollTimeoutFiresResets(timer) ==
  /\ timer \in pendingTimers
  /\ pendingTimers' = pendingTimers \ {timer}
  /\ state' = setState(state, "quantity" :> 1)
  /\ UNCHANGED <<mounted, props, scrollTimeout, products, calls, args, result, readmeVars, appVars>>

\* the timer set by a submission runs its callback (the scroll)
scrollTimeoutFires(timer) ==
  /\ timer \in pendingTimers
  /\ pendingTimers' = pendingTimers \ {timer}
  /\ UNCHANGED <<mounted, props, state, scrollTimeout, products, calls, args, result, readmeVars, appVars>>

\* an unmount that leaves the scroll timer running
componentWillUnmountKeepsTimer ==
  /\ mounted
  /\ mounted' = FALSE
  /\ UNCHANGED <<props, state, scrollTimeout, pendingTimers, products, calls, args, result,
                 readmeVars, appVars>>

\* componentWillUnmount: this.clearScrollTimeout(), which also deletes this.scrollTimeout
componentWillUnmount ==
  /\ mounted
  /\ mounted' = FALSE
  /\ pendingTimers' = clearScrollTimeout(pendingTimers)
  /\ scrollTimeout' = 0
  /\ UNCHANGED <<props, state, products, calls, args, result, readmeVars, appVars>>

Next ==
  \/ \E value \in QuantityInputs : handleQuantityValueChange(value)
  \/ \E i \in 1..Len(props.properties) :
       \E index \in 0..Len(props.properties[i].v) - 1 :
         hanglePropertyValueChange(props.properties[i].k, index)
  \/ addProductFormSubmit
  \/ \E timer \in pendingTimers : scrollTimeoutFires(timer)
  \/ componentWillUnmount

Spec == Init /\ [][Next]_vars

(***************************************************************************)
(* The README App on its own: its callbacks called in any order, with      *)
(* React applying the queued setState updaters one at a time               *)
(***************************************************************************)
CartProductDefs == {MacbookCase, PlainCase}

\* the selections a form of the product can be in: an option of each property
InRangeSelections(product) ==
  {sel \in [Keys(product.properties) -> 0..MaxIndex] :
     \A i \in 1..Len(product.properties) :
       sel[product.properties[i].k] < Len(product.properties[i].v)}

\* the arguments a Product form passes to onAddProduct
AddProductInputsOf(d) ==
  {LET product == generateCartProduct(d, q, sel)
   IN  [key |-> generateProductKey(d.id, product.properties),
        product |-> product,
        currency |-> "USD"] : q \in {1, MaxQuantity}, sel \in InRangeSelections(d)}

AddProductInputs == UNION {AddProductInputsOf(d) : d \in CartProductDefs}

\* the keys Cart passes to onUpdateProduct and onRemoveProduct
KeyInputs == {input.key : input \in AddProductInputs}

\* the fields Cart passes to onUpdateProduct
UpdatedProductInputs == {<<Entry("quantity", q)>> : q \in 1..MaxQuantity}

InitCart ==
  /\ props = PlainCase
  /\ mounted = TRUE
  /\ state = ("quantity" :> 1)
  /\ scrollTimeout = 0
  /\ pendingTimers = {}
  /\ products = <<>>
  /\ calls = <<>>
  /\ args = NoArgs
  /\ result = NoResult
  /\ updaters = <<>>
  /\ consoleLog = ""
  /\ app = AppState
  /\ store = [currency |-> DefaultCartCurrency, products |-> <<>>]
  /\ dispatched = <<>>

\* addProduct = (key, product, currency) => void this.setState(updater)
onAddProduct(key, product, currency) ==
  /\ Len(calls) < MaxSubmits
  /\ calls' = Append(calls, [key |-> key, product |-> product, currency |-> currency])
  /\ updaters' = Append(updaters, queuedUpdater(key, product, products))
  /\ UNCHANGED <<mounted, props, state, scrollTimeout, pendingTimers, products, args, result,
                 consoleLog, appVars>>

\* React applies the oldest queued updater to the state of this moment
applyQueuedUpdater ==
  /\ updaters # <<>>
  /\ products' = runUpdater(products, Head(updaters))
  /\ updaters' = Tail(updaters)
  /\ UNCHANGED <<mounted, props, state, scrollTimeout, pendingTimers, calls, args, result,
                 consoleLog, appVars>>

onUpdateProduct(key, updatedProduct) ==
  /\ products' = updateProduct(products, key, updatedProduct)
  /\ consoleLog' = ":)"
  /\ UNCHANGED <<mounted, props, state, scrollTimeout, pendingTimers, calls, args, result,
                 updaters, appVars>>

onRemoveProduct(key) ==
  /\ products' = removeProduct(products, key)
  /\ consoleLog' = ":C"
  /\ UNCHANGED <<mounted, props, state, scrollTimeout, pendingTimers, calls, args, result,
                 updaters, appVars>>

NextCart ==
  \/ \E input \in AddProductInputs :
       onAddProduct(input.key, input.product, input.currency)
  \/ applyQueuedUpdater
  \/ \E key \in KeyInputs, updatedProduct \in UpdatedProductInputs :
       onUpdateProduct(key, updatedProduct)
  \/ \E key \in KeyInputs : onRemoveProduct(key)

SpecCart == InitCart /\ [][NextCart]_vars

(***************************************************************************)
(* The example App on its own: its language and currency handlers          *)
(***************************************************************************)
\* the cart the Product container has put in the store before the handlers run
StoreProducts ==
  {<<>>} \cup {addProduct(<<>>, input.key, input.product) :
                 input \in AddProductInputsOf(MacbookCase)}

InitApp ==
  /\ props = PlainCase
  /\ mounted = TRUE
  /\ state = ("quantity" :> 1)
  /\ scrollTimeout = 0
  /\ pendingTimers = {}
  /\ products = <<>>
  /\ calls = <<>>
  /\ args = NoArgs
  /\ result = NoResult
  /\ updaters = <<>>
  /\ consoleLog = ""
  /\ app = AppState
  /\ store \in [currency : {DefaultCartCurrency}, products : StoreProducts]
  /\ dispatched = <<>>

\* a changeCurrency that dispatches to the store and leaves App's state alone
changeCurrencyStoreOnly(currency) ==
  /\ Len(dispatched) < MaxDispatches
  /\ dispatched' = Append(dispatched, setCartCurrency(currency))
  /\ store' = cartReducer(store, setCartCurrency(currency))
  /\ UNCHANGED <<mounted, props, state, scrollTimeout, pendingTimers, products, calls, args, result,
                 readmeVars, app>>

\* store.dispatch(setCartCurrency(currency)), then this.setState({ currency })
changeCurrency(currency) ==
  /\ Len(dispatched) < MaxDispatches
  /\ dispatched' = Append(dispatched, setCartCurrency(currency))
  /\ store' = cartReducer(store, setCartCurrency(currency))
  /\ app' = [app EXCEPT !.currency = currency]
  /\ UNCHANGED <<mounted, props, state, scrollTimeout, pendingTimers, products, calls, args, result,
                 readmeVars>>

\* this.setState({ lang })
changeLanguage(lang) ==
  /\ app' = [app EXCEPT !.lang = lang]
  /\ UNCHANGED <<mounted, props, state, scrollTimeout, pendingTimers, products, calls, args, result,
                 readmeVars, store, dispatched>>

NextApp ==
  \/ \E currency \in CurrencyInputs : changeCurrency(currency)
  \/ \E lang \in LanguageInputs : changeLanguage(lang)

SpecApp == InitApp /\ [][NextApp]_vars

(***************************************************************************)
(* The pure functions on drawn inputs                                      *)
(***************************************************************************)
Currencies == {"EUR", "GBP", "USD"}

\* every map from some of the property names to an index, in range or not
SelectionsOf(product) ==
  UNION {[names -> -1..MaxIndex] : names \in SUBSET Keys(product.properties)}

ProductArgsOf(d) ==
  {[fn |-> "product", product |-> d, quantity |-> q,
    selectedPropertyIndexes |-> sel, currency |-> c] :
     q \in {1, MaxQuantity}, sel \in SelectionsOf(d), c \in Currencies}

ProductArgs == UNION {ProductArgsOf(d) : d \in ProductDefs}

PropertyNames == {"a", "b", "c"}
PropertyValues == {Num(1), Num(2), Str("1")}

\* resolved property maps: entries with distinct names, in any insertion order
PropertyMaps ==
  {m \in UNION {[1..n -> [k : PropertyNames, v : PropertyValues]] : n \in 0..MaxProps} :
     \A i, j \in 1..Len(m) : m[i].k = m[j].k => i = j}

\* the same name/value pairs inserted in another order
IsPermutation(m1, m2) ==
  /\ Len(m1) = Len(m2)
  /\ {m1[i] : i \in 1..Len(m1)} = {m2[i] : i \in 1..Len(m2)}

KeyArgs ==
  {a \in [fn : {"key"}, id : {"m"}, properties : PropertyMaps, permuted : PropertyMaps] :
     IsPermutation(a.properties, a.permuted)}

\* the carts Cart is rendered with: empty, one line, two lines
RenderedCarts ==
  {<<>>}
  \cup {addProduct(<<>>, input.key, input.product) : input \in AddProductInputs}
  \cup {addProduct(addProduct(<<>>, input.key, input.product),
                    generateProductKey("n", <<>>), generateCartProduct(PlainCase, 1, <<>>)) :
          input \in AddProductInputsOf(MacbookCase)}

\* the props a caller gives Cart, with a linkComponent of its own or without one
CartArgs ==
  {[fn |-> "cart",
    props |-> <<Entry("products", cart), Entry("currency", currency)>> \o link] :
     cart \in RenderedCarts, currency \in Currencies,
     link \in {<<>>, <<Entry("linkComponent", "RouterLink")>>}}

\* two ids and two resolved property maps of the same size
KeyPairArgs ==
  {a \in [fn : {"keyPair"}, id : {"m"}, properties : PropertyMaps,
          otherId : {"m", "n"}, otherProperties : PropertyMaps] :
     Len(a.properties) = Len(a.otherProperties)}

InitFn ==
  /\ props = PlainCase
  /\ mounted = TRUE
  /\ state = ("quantity" :> 1)
  /\ scrollTimeout = 0
  /\ pendingTimers = {}
  /\ products = <<>>
  /\ calls = <<>>
  /\ args \in ProductArgs \cup KeyArgs \cup CartArgs \cup KeyPairArgs
  /\ result = NoResult
  /\ updaters = <<>>
  /\ consoleLog = ""
  /\ app = AppState
  /\ store = [currency |-> DefaultCartCurrency, products |-> <<>>]
  /\ dispatched = <<>>

applyCalculateAdditionalCost ==
  /\ args.fn = "product"
  /\ result.fn = "none"
  /\ result' = [fn |-> "calculateAdditionalCost",
                value |-> calculateAdditionalCost(args.product.properties,
                            args.selectedPropertyIndexes, args.currency)]
  /\ UNCHANGED <<mounted, props, state, scrollTimeout, pendingTimers, products, calls, args, readmeVars, appVars>>

applyGenerateCartProduct ==
  /\ args.fn = "product"
  /\ result.fn = "none"
  /\ result' = [fn |-> "generateCartProduct",
                value |-> generateCartProduct(args.product, args.quantity,
                            args.selectedPropertyIndexes)]
  /\ UNCHANGED <<mounted, props, state, scrollTimeout, pendingTimers, products, calls, args, readmeVars, appVars>>

applyGenerateProductKey ==
  /\ args.fn = "key"
  /\ result.fn = "none"
  /\ result' = [fn |-> "generateProductKey",
                value |-> generateProductKey(args.id, args.properties),
                permuted |-> generateProductKey(args.id, args.permuted)]
  /\ UNCHANGED <<mounted, props, state, scrollTimeout, pendingTimers, products, calls, args, readmeVars, appVars>>

applyCartRender ==
  /\ args.fn = "cart"
  /\ result.fn = "none"
  /\ result' = [fn |-> "Cart.render", value |-> CartRender(withDefaultProps(args.props))]
  /\ UNCHANGED <<mounted, props, state, scrollTimeout, pendingTimers, products, calls, args, readmeVars, appVars>>

applyGenerateProductKeyPair ==
  /\ args.fn = "keyPair"
  /\ result.fn = "none"
  /\ result' = [fn |-> "generateProductKeyPair",
                value |-> generateProductKey(args.id, args.properties),
                other |-> generateProductKey(args.otherId, args.otherProperties)]
  /\ UNCHANGED <<mounted, props, state, scrollTimeout, pendingTimers, products, calls, args, readmeVars, appVars>>

\* the price the form shows and the price Cart shows for the line item the
\* form's submission puts in an empty cart, in each currency
applyDisplayedPrices ==
  /\ args.fn = "product"
  /\ result.fn = "none"
  /\ LET lineItem == generateCartProduct(args.product, args.quantity,
                                         args.selectedPropertyIndexes)
         key == generateProductKey(args.product.id, lineItem.properties)
         cart == addProduct(<<>>, key, lineItem)
     IN  result' =
           [fn |-> "displayedPrices",
            form |-> [c \in Currencies |->
                        displayedPrice(args.product, args.selectedPropertyIndexes, c)],
            cart |-> [c \in Currencies |->
                        CartRender(withDefaultProps(
                          <<Entry("products", cart), Entry("currency", c)>>))[1].price]]
  /\ UNCHANGED <<mounted, props, state, scrollTimeout, pendingTimers, products, calls, args, readmeVars, appVars>>

NextFn ==
  \/ applyCalculateAdditionalCost
  \/ applyGenerateCartProduct
  \/ applyGenerateProductKey
  \/ applyCartRender
  \/ applyGenerateProductKeyPair
  \/ applyDisplayedPrices

SpecFn == InitFn /\ [][NextFn]_vars

(***************************************************************************)
(* Product.render's localization: the templates it formats with its scope  *)
(***************************************************************************)
\* a template is the sequence of its parts: literal text and {parameter}s
Lit(text) == [lit |-> TRUE, s |-> text]
Param(name) == [lit |-> FALSE, s |-> name]

\* the parameters of the scope that are getters
LazyParameters == {"localizedCurrency", "localizedName"}

\* the ids Product.render formats, in the order render evaluates them
RenderedIds == <<"price", "quantityLabel", "addToCart">>

PriceTemplates ==
  { <<Lit("Price: "), Param("localizedCurrency"), Param("price")>>,
    <<Lit("Price: "), Param("price"), Lit(" "), Param("currency")>>,
    <<Param("localizedName"), Lit(": "), Param("localizedCurrency"), Param("price")>> }

QuantityLabelTemplates ==
  { <<Lit("Quantity:")>>,
    <<Lit("Quantity of "), Param("localizedName"), Lit(":")>> }

AddToCartTemplates ==
  { <<Lit("Add to cart")>>,
    <<Lit("Add "), Param("quantity"), Lit(" to cart")>> }

\* the template of the currency code: plain text, or one that reads the scope
CurrencyTemplates ==
  { <<Lit("$")>>, <<Param("currency")>>,
    <<Param("localizedCurrency")>>, <<Lit("$ for "), Param("localizedName")>> }

\* the template of the product name, likewise
NameTemplates ==
  { <<Lit("Macbook case")>>, <<Param("name")>>,
    <<Param("localizedName")>>, <<Param("localizedCurrency"), Lit(" case")>> }

\* the localization tables getLocalization looks its templates up in
LocalizationTables(currency, name) ==
  { [id \in {"price", "quantityLabel", "addToCart", currency, name} |->
       CASE id = "price" -> priceTemplate
         [] id = "quantityLabel" -> quantityLabelTemplate
         [] id = "addToCart" -> addToCartTemplate
         [] id = currency -> currencyTemplate
         [] OTHER -> nameTemplate] :
      priceTemplate \in PriceTemplates,
      quantityLabelTemplate \in QuantityLabelTemplates,
      addToCartTemplate \in AddToCartTemplates,
      currencyTemplate \in CurrencyTemplates,
      nameTemplate \in NameTemplates }

\* const localizationScope = { name, quantity, price, currency,
\*   get localizedCurrency() {...}, get localizedName() {...} }:
\* a getter is kept as the id it calls getLocalization with when it is read
localizationScope(p, st) ==
  [ name |-> Str(p.name),
    quantity |-> Num(st.quantity),
    price |-> displayedPrice(p, selectedPropertyIndexesOf(st), p.currency),
    currency |-> Str(p.currency),
    localizedCurrency |-> [get |-> p.currency],
    localizedName |-> [get |-> p.name] ]

\* a call of getLocalization(id, localizationScope) that has formatted the
\* parts of its template before position at
Frame(id) == [id |-> id, at |-> 1]

InitLocalization ==
  /\ props = [PlainCase EXCEPT !.currency = "USD"]
  /\ mounted = TRUE
  /\ state = ("quantity" :> 1)
  /\ scrollTimeout = 0
  /\ pendingTimers = {}
  /\ products = <<>>
  /\ calls = <<>>
  /\ args \in [fn : {"localization"},
               localization : LocalizationTables(props.currency, props.name)]
  /\ result = NoResult
  /\ updaters = <<>>
  /\ consoleLog = ""
  /\ app = AppState
  /\ store = [currency |-> DefaultCartCurrency, products |-> <<>>]
  /\ dispatched = <<>>

\* a render that calls both getters while it builds the scope
renderEager ==
  /\ args.fn = "localization"
  /\ result.fn = "none"
  /\ result' =
       [fn |-> "render", scope |-> localizationScope(props, state),
        todo |-> RenderedIds, rendering |-> "none", stack |-> <<>>,
        read |-> <<>>, invoked |-> <<props.currency, props.name>>,
        out |-> [id \in {"price", "quantityLabel", "addToCart"} |-> <<>>]]
  /\ UNCHANGED <<mounted, props, state, scrollTimeout, pendingTimers, products, calls, args,
                 readmeVars, appVars>>

\* render up to the scope: the scope is built, nothing is formatted yet and no
\* getter has been read
render ==
  /\ args.fn = "localization"
  /\ result.fn = "none"
  /\ result' =
       [fn |-> "render", scope |-> localizationScope(props, state),
        todo |-> RenderedIds, rendering |-> "none", stack |-> <<>>,
        read |-> <<>>, invoked |-> <<>>,
        out |-> [id \in {"price", "quantityLabel", "addToCart"} |-> <<>>]]
  /\ UNCHANGED <<mounted, props, state, scrollTimeout, pendingTimers, products, calls, args,
                 readmeVars, appVars>>

\* render's next getLocalization(id, localizationScope)
getLocalization ==
  /\ result.fn = "render"
  /\ result.stack = <<>>
  /\ result.todo # <<>>
  /\ result' = [result EXCEPT !.todo = Tail(@),
                              !.rendering = Head(result.todo),
                              !.stack = <<Frame(Head(result.todo))>>]
  /\ UNCHANGED <<mounted, props, state, scrollTimeout, pendingTimers, products, calls, args,
                 readmeVars, appVars>>

\* the formatter takes the next part of the template on top of the stack:
\* text is copied, a plain parameter is read from the scope, and reading a
\* getter calls getLocalization with the getter's id and the same scope; a
\* call the stack has no room for throws RangeError
formatPart ==
  /\ result.fn = "render"
  /\ result.stack # <<>>
  /\ LET top == Len(result.stack)
         frame == result.stack[top]
         template == args.localization[frame.id]
     IN  /\ frame.at <= Len(template)
         /\ LET part == template[frame.at]
                advanced == [result.stack EXCEPT ![top].at = @ + 1]
            IN  result' =
                  IF part.lit
                    THEN [result EXCEPT !.stack = advanced,
                                        !.out[result.rendering] = Append(@, Str(part.s))]
                  ELSE IF part.s \notin LazyParameters
                    THEN [result EXCEPT !.stack = advanced,
                                        !.out[result.rendering] =
                                          Append(@, result.scope[part.s])]
                  ELSE IF top < MaxDepth
                    THEN [result EXCEPT !.stack =
                                          Append(advanced, Frame(result.scope[part.s].get)),
                                        !.read = Append(@, part.s),
                                        !.invoked = Append(@, result.scope[part.s].get)]
                  ELSE [result EXCEPT !.fn = "RangeError",
                                      !.read = Append(@, part.s),
                                      !.invoked = Append(@, result.scope[part.s].get)]
  /\ UNCHANGED <<mounted, props, state, scrollTimeout, pendingTimers, products, calls, args,
                 readmeVars, appVars>>

\* the template on top of the stack is formatted: the call returns to the
\* template that read the getter, or to render
formatReturn ==
  /\ result.fn = "render"
  /\ result.stack # <<>>
  /\ LET top == Len(result.stack)
         frame == result.stack[top]
     IN  /\ frame.at > Len(args.localization[frame.id])
         /\ result' = [result EXCEPT !.stack = SubSeq(@, 1, top - 1),
                                     !.fn = IF top = 1 /\ result.todo = <<>>
                                              THEN "rendered" ELSE "render"]
  /\ UNCHANGED <<mounted, props, state, scrollTimeout, pendingTimers, products, calls, args,
                 readmeVars, appVars>>

NextLocalization ==
  \/ render
  \/ getLocalization
  \/ formatPart
  \/ formatReturn

SpecLocalization == InitLocalization /\ [][NextLocalization]_vars

\* render runs to its end once called: no step of it waits for anything
FairLocalization == SpecLocalization /\ WF_vars(NextLocalization)

(***************************************************************************)
(* Properties                                                              *)
(***************************************************************************)
LastCall(log) == log[Len(log)]

\* two resolved property maps with the same names and the same value per name
SameProperties(m1, m2) ==
  {m1[i] : i \in 1..Len(m1)} = {m2[i] : i \in 1..Len(m2)}

\* C1: an add at a key already in the cart leaves an entry whose quantity is
\* the existing quantity plus the incoming one and whose other fields are the
\* incoming item's; an add at an absent key inserts the incoming item as it is.
C1_AddMergesOrInserts ==
  [][Len(calls') = Len(calls) + 1 =>
       LET incoming == LastCall(calls').product
           key == LastCall(calls').key
           existing == IF Has(products, key) THEN Get(products, key).quantity ELSE 0
       IN  /\ Has(products', key)
           /\ Get(products', key).quantity = existing + incoming.quantity
           /\ Get(products', key).id = incoming.id
           /\ Get(products', key).properties = incoming.properties
           /\ Get(products', key).productInfo = incoming.productInfo
           /\ ~Has(products, key) => Get(products', key) = incoming]_vars

\* quantity 2 then quantity 3 added at the same key: the line holds 5
C1_Witness ==
  /\ Len(calls) = 2
  /\ calls[1].key = calls[2].key
  /\ calls[1].product.quantity = 2
  /\ calls[2].product.quantity = 3
  /\ Get(products, calls[2].key).quantity = 5

\* C2: submissions with the same product id and the same resolved properties
\* were given the same product key, and the cart never holds two lines with
\* the same id and the same resolved properties.
C2_OneLinePerConfiguration ==
  /\ \A i, j \in 1..Len(calls) :
       ( /\ calls[i].product.id = calls[j].product.id
         /\ SameProperties(calls[i].product.properties, calls[j].product.properties) )
         => calls[i].key = calls[j].key
  /\ \A i, j \in 1..Len(products) :
       ( /\ products[i].v.id = products[j].v.id
         /\ SameProperties(products[i].v.properties, products[j].v.properties) )
         => i = j

\* the same configuration of a product with properties submitted twice: one line
C2_Witness ==
  /\ Len(calls) = 2
  /\ Len(calls[1].product.properties) > 0
  /\ SameProperties(calls[1].product.properties, calls[2].product.properties)
  /\ Len(products) = 1
  /\ products[1].v.quantity = calls[1].product.quantity + calls[2].product.quantity

\* the index a property is read at: the selected one, 0 when none is selected
SelectedIndex(selection, name) ==
  IF name \in DOMAIN selection THEN selection[name] ELSE 0

\* what one property contributes in a currency, as the contract words it
Contribution(group, selection, currency) ==
  LET index == SelectedIndex(selection, group.k)
  IN  IF /\ index >= 0
         /\ index < Len(group.v)
         /\ group.v[index + 1].kind = "object"
         /\ group.v[index + 1].hasAdditionalCost
         /\ currency \in Keys(group.v[index + 1].additionalCost)
        THEN Get(group.v[index + 1].additionalCost, currency)
        ELSE 0

\* the sum of the contributions of the properties at the positions in S
RECURSIVE SumContributions(_, _, _, _)
SumContributions(S, properties, selection, currency) ==
  IF S = {} THEN 0
  ELSE LET i == CHOOSE j \in S : TRUE
       IN  Contribution(properties[i], selection, currency)
             + SumContributions(S \ {i}, properties, selection, currency)

ExpectedAdditionalCost(properties, selection, currency) ==
  SumContributions(1..Len(properties), properties, selection, currency)

\* C3: generateProductKey gives equal keys for the same name/value pairs
\* inserted in different orders.
C3_KeyIgnoresInsertionOrder ==
  result.fn = "generateProductKey" => result.value = result.permuted

\* C4: calculateAdditionalCost is the sum over the properties of the cost, in
\* the asked currency, of the option at the selected index (index 0 when none
\* is selected) when that option is a record whose additionalCost has the
\* currency, and of 0 otherwise; a bare scalar contributes 0.
C4_AdditionalCostIsSumOfSelected ==
  result.fn = "calculateAdditionalCost" =>
    result.value = ExpectedAdditionalCost(args.product.properties,
                     args.selectedPropertyIndexes, args.currency)

\* two properties, one selected and one not, and a cost that is not 0
C4_Witness ==
  /\ result.fn = "calculateAdditionalCost"
  /\ Len(args.product.properties) = 2
  /\ Cardinality(DOMAIN args.selectedPropertyIndexes) = 1
  /\ result.value > 0

\* C5: the line item's price table has exactly the currencies of the base
\* prices, each price being the base price plus the additional cost of the
\* selection in that currency; id, quantity, name, path, imagePath and
\* propertiesToShowInCart are those given.
C5_PriceTablePerCurrency ==
  result.fn = "generateCartProduct" =>
    LET item == result.value
        product == args.product
    IN  /\ Keys(item.productInfo.prices) = Keys(product.prices)
        /\ Len(item.productInfo.prices) = Cardinality(Keys(product.prices))
        /\ \A c \in Keys(product.prices) :
             Get(item.productInfo.prices, c)
               = Get(product.prices, c)
                 + calculateAdditionalCost(product.properties,
                                           args.selectedPropertyIndexes, c)
        /\ item.id = product.id
        /\ item.quantity = args.quantity
        /\ item.productInfo.name = product.name
        /\ item.productInfo.path = product.path
        /\ item.productInfo.imagePath = product.imagePath
        /\ item.productInfo.propertiesToShowInCart = product.propertiesToShowInCart

\* a price table of two currencies of which only one carries the additional cost
C5_Witness ==
  /\ result.fn = "generateCartProduct"
  /\ Len(result.value.productInfo.prices) = 2
  /\ \E c \in Keys(args.product.prices) :
       Get(result.value.productInfo.prices, c) > Get(args.product.prices, c)
  /\ \E c \in Keys(args.product.prices) :
       Get(result.value.productInfo.prices, c) = Get(args.product.prices, c)

\* C6: the line item's properties have exactly one entry per property of the
\* product, and the entry of a property whose selected index (0 when none is
\* selected) is within its options is that option's plain value: a string or
\* a number, the scalar itself or the record's value.
C6_PropertiesResolved ==
  result.fn = "generateCartProduct" =>
    LET item == result.value
        groups == args.product.properties
    IN  /\ Len(item.properties) = Len(groups)
        /\ Keys(item.properties) = Keys(groups)
        /\ \A i \in 1..Len(groups) :
             LET index == SelectedIndex(args.selectedPropertyIndexes, groups[i].k)
             IN  (index >= 0 /\ index < Len(groups[i].v)) =>
                   /\ Get(item.properties, groups[i].k) = groups[i].v[index + 1].value
                   /\ Get(item.properties, groups[i].k).t \in {"string", "number"}

\* a record option other than the first is selected and resolves to its value
C6_Witness ==
  /\ result.fn = "generateCartProduct"
  /\ \E i \in 1..Len(args.product.properties) :
       LET group == args.product.properties[i]
       IN  /\ group.k \in DOMAIN args.selectedPropertyIndexes
           /\ args.selectedPropertyIndexes[group.k] = 1
           /\ Len(group.v) > 1
           /\ group.v[2].kind = "object"
           /\ Get(result.value.properties, group.k) = group.v[2].value

\* the selection with every index outside its property's options replaced by 0
ClampedToFirst(product, selection) ==
  [name \in DOMAIN selection |->
     IF /\ Has(product.properties, name)
        /\ ~(selection[name] >= 0 /\ selection[name] < Len(Get(product.properties, name)))
       THEN 0
       ELSE selection[name]]

\* C8: with a selected index outside a property's options, calculateAdditionalCost
\* returns the amount, and generateCartProduct the price table, that they
\* return with index 0.
C8_OutOfRangeIsFirstOption ==
  LET clamped == ClampedToFirst(args.product, args.selectedPropertyIndexes)
  IN  /\ result.fn = "calculateAdditionalCost" =>
           result.value
             = calculateAdditionalCost(args.product.properties, clamped, args.currency)
      /\ result.fn = "generateCartProduct" =>
           result.value.productInfo.prices
             = generateCartProduct(args.product, args.quantity, clamped).productInfo.prices

\* C7: the price the form shows is the base price in the form's currency plus
\* the additional cost of the current selection in that currency, unrounded.
C7_DisplayedPrice ==
  price = Get(props.prices, props.currency)
            + ExpectedAdditionalCost(props.properties,
                [name \in DOMAIN state \ {"quantity"} |-> state[name]], props.currency)

\* base price USD 70, yellow (+3.50 USD) selected: 73.5 is shown
C7_Witness ==
  /\ props.id = "m"
  /\ props.currency = "USD"
  /\ Get(props.prices, "USD") = 7000
  /\ "colour" \in DOMAIN state
  /\ state["colour"] = 1
  /\ price = 7350

\* C9: a quantity input that is a positive integer becomes the quantity and
\* nothing else of the form's state changes; an input that is fractional,
\* zero, negative or not a number leaves the state as it was.
C9_QuantityInputValidated ==
  [][\A value \in QuantityInputs :
       handleQuantityValueChange(value) =>
         LET number == ToNumber(value)
         IN  IF ~number.nan /\ number.num > 0 /\ number.num % number.den = 0
               THEN /\ state'["quantity"] * number.den = number.num
                    /\ DOMAIN state' = DOMAIN state
                    /\ \A name \in DOMAIN state \ {"quantity"} : state'[name] = state[name]
               ELSE state' = state]_vars

\* the quantity typed into the form of a product without a quantity property
C9_Witness ==
  /\ props.id = "m"
  /\ state["quantity"] = 2

\* C10: the quantity in the form's state is a positive integer, and so is the
\* quantity of every line item passed to onAddProduct.
C10_QuantityPositive ==
  /\ state["quantity"] > 0
  /\ \A i \in 1..Len(calls) : calls[i].product.quantity > 0

\* C11: a submission with a truthy quantity calls onAddProduct exactly once, with
\* the key of the line item's resolved properties, the line item built from the
\* form's props, quantity and selection, and the form's currency; a submission
\* with a falsy quantity does not call it
C11_SubmitCallsOnAddProductOnce ==
  [][addProductFormSubmit =>
       LET lineItem == generateCartProduct(props, state["quantity"],
                                           selectedPropertyIndexesOf(state))
       IN  IF state["quantity"] # 0
             THEN calls' = Append(calls,
                             [key |-> generateProductKey(props.id, lineItem.properties),
                              product |-> lineItem,
                              currency |-> props.currency])
             ELSE calls' = calls]_vars

\* one submission has called onAddProduct and the quantity is now falsy
C11_Witness ==
  /\ Len(calls) = 1
  /\ calls[1].currency = props.currency
  /\ calls[1].product.quantity > 0
  /\ state["quantity"] = 0

\* the quantities of the first n calls of the log that were made for the key
RECURSIVE SumOfCalls(_, _, _)
SumOfCalls(log, n, key) ==
  IF n = 0
    THEN 0
    ELSE SumOfCalls(log, n - 1, key)
         + (IF log[n].key = key THEN log[n].product.quantity ELSE 0)

\* C12: the cart always holds, at each key, the sum of the quantities of the
\* addProduct calls applied so far for that key and nothing else, whether the
\* calls were applied one by one or queued together; once no updater is queued
\* that is the sum over all calls made
C12_NoAddLost ==
  LET applied == Len(calls) - Len(updaters)
  IN  /\ \A key \in KeyInputs :
           LET total == SumOfCalls(calls, applied, key)
           IN  IF total = 0
                 THEN ~Has(products, key)
                 ELSE Has(products, key) /\ Get(products, key).quantity = total
      /\ Keys(products) \subseteq KeyInputs
      /\ \A i, j \in 1..Len(products) : products[i].k = products[j].k => i = j

\* two calls for one key were queued while the cart was empty; the first has
\* been applied and the second is still queued
C12_Witness ==
  /\ Len(calls) = 2
  /\ calls[1].key = calls[2].key
  /\ Len(updaters) = 1
  /\ updaters[1].seen = <<>>
  /\ Has(products, calls[1].key)

\* C13: applying an add gives a collection with the old keys and the added key,
\* and every entry at another key is the entry the old collection had
C13_AddLeavesOtherEntries ==
  [][applyQueuedUpdater =>
       LET key == Head(updaters).key
       IN  /\ Keys(products') = Keys(products) \cup {key}
           /\ \A other \in Keys(products) \ {key} :
                Get(products', other) = Get(products, other)
           /\ \A i \in 1..Len(updaters') : updaters'[i].seen = updaters[i + 1].seen]_vars

\* the cart holds two lines and the second was added after the first
C13_Witness ==
  /\ Len(products) = 2
  /\ updaters = <<>>
  /\ products[1].k = calls[1].key
  /\ products[2].k = calls[2].key

\* C14: removeProduct takes the entry at the key out of the collection and
\* leaves every other entry as it was
C14_RemoveTakesEntryOut ==
  [][\A key \in KeyInputs :
       onRemoveProduct(key) =>
         /\ ~Has(products', key)
         /\ \A other \in Keys(products) \ {key} :
              Has(products', other) /\ Get(products', other) = Get(products, other)]_vars

\* C15: updateProduct puts the given fields into the entry at the key and
\* leaves every other entry, and a collection without the key, as it was
C15_UpdateMergesFields ==
  [][\A key \in KeyInputs, updatedProduct \in UpdatedProductInputs :
       onUpdateProduct(key, updatedProduct) =>
         IF Has(products, key)
           THEN /\ Has(products', key)
                /\ Get(products', key) =
                     [Get(products, key) EXCEPT !.quantity = Get(updatedProduct, "quantity")]
                /\ \A other \in Keys(products) \ {key} :
                     Has(products', other) /\ Get(products', other) = Get(products, other)
           ELSE products' = products]_vars

\* C16: the cart's currency is 'USD' while no setCartCurrency action has been
\* dispatched and afterwards the currency of the last one dispatched, and a
\* dispatch leaves the cart's products as they were
C16_CartCurrencyIsLastDispatched ==
  /\ [](IF dispatched = <<>>
          THEN store.currency = "USD"
          ELSE store.currency = LastCall(dispatched).currency)
  /\ [][store'.products = store.products]_vars

\* two different currencies were dispatched to a store that holds a product
C16_Witness ==
  /\ Len(dispatched) = 2
  /\ dispatched[1].currency = "EUR"
  /\ dispatched[2].currency = "GBP"
  /\ store.currency = "GBP"
  /\ store.products # <<>>

ComponentScope == [Product |-> "product", Cart |-> "cart", CheckoutButton |-> "checkoutButton"]

\* C18: the getLocalization passed to each component is the getter that was
\* built at construction for the current language and the component's scope;
\* the table of getters never changes, a step that keeps the language passes
\* the same functions and a step that changes it passes other functions
C18_GettersSwappedWholesale ==
  /\ [](\A component \in DOMAIN ComponentScope :
          /\ AppRender[component] = localizationGetters[app.lang][ComponentScope[component]]
          /\ AppRender[component].closure.lang = app.lang
          /\ AppRender[component].closure.scope = ComponentScope[component])
  /\ [][/\ app'.localizationGetters = app.localizationGetters
        /\ app'.lang = app.lang => AppRender' = AppRender
        /\ app'.lang # app.lang =>
             \A component \in DOMAIN ComponentScope :
               AppRender'[component] # AppRender[component]]_vars

\* French was chosen and a currency was changed: the French getters are passed
C18_Witness ==
  /\ app.lang = "fr"
  /\ app.currency = "GBP"
  /\ AppRender.Product.closure.lang = "fr"
  /\ AppRender.Cart.ref # localizationGetters["en"].cart.ref

\* C17: every cart item is rendered with the linkComponent of Cart's props, which
\* is the default link only when the caller gave none
C17_LinkComponentFromProps ==
  result.fn = "Cart.render" =>
    \A i \in 1..Len(result.value) :
      result.value[i].linkComponent = Get(withDefaultProps(args.props), "linkComponent")

\* C19: two onAddProduct calls of a form with the same product key carry the
\* same price table
C19_KeyDeterminesPrices ==
  \A i, j \in 1..Len(calls) :
    calls[i].key = calls[j].key =>
      calls[i].product.productInfo.prices = calls[j].product.productInfo.prices

\* C20: two (id, resolved properties) pairs that differ in the id, in the set of
\* property names or in a property's value have different keys
C20_KeyInjective ==
  (/\ result.fn = "generateProductKeyPair"
   /\ \/ args.id # args.otherId
      \/ {args.properties[i] : i \in 1..Len(args.properties)}
           # {args.otherProperties[i] : i \in 1..Len(args.otherProperties)})
    => result.value # result.other

\* C21: choosing an option of a group changes only that group's selected index,
\* not the quantity nor another group's index, and a quantity input leaves every
\* group's selected index as it was
C21_QuantityAndSelectionIndependent ==
  [][/\ \A i \in 1..Len(props.properties) :
          \A index \in 0..Len(props.properties[i].v) - 1 :
            hanglePropertyValueChange(props.properties[i].k, index) =>
              /\ state'["quantity"] = state["quantity"]
              /\ \A other \in DOMAIN state \ {"quantity", props.properties[i].k} :
                   state'[other] = state[other]
     /\ \A value \in QuantityInputs :
          handleQuantityValueChange(value) =>
            \A i \in 1..Len(props.properties) :
              LET name == props.properties[i].k
              IN  (name \in DOMAIN state' <=> name \in DOMAIN state)
                  /\ (name \in DOMAIN state => state'[name] = state[name])]_vars

\* C23: a submission leaves the form's quantity and selected indexes as they
\* were, so a submission repeated at once passes the key and the line item of
\* the call just made
C23_SubmitLeavesFormState ==
  [][addProductFormSubmit =>
       /\ state' = state
       /\ state["quantity"] # 0 =>
            LET again == generateCartProduct(props', state'["quantity"],
                                             selectedPropertyIndexesOf(state'))
            IN  /\ again = LastCall(calls').product
                /\ generateProductKey(props'.id, again.properties) = LastCall(calls').key]_vars

\* two submissions in a row passed the same key and line item
C23_Witness ==
  /\ Len(calls) = 2
  /\ calls[1] = calls[2]
  /\ calls[2].product.quantity = 2
  /\ state["quantity"] = 2

\* C24: at most one scroll timer is pending, and it is the one the form holds
C24_OneScrollTimerPending ==
  /\ Cardinality(pendingTimers) <= 1
  /\ pendingTimers \subseteq {scrollTimeout}

\* two submissions were made and only the second one's timer is pending
C24_Witness ==
  /\ Len(calls) = 2
  /\ scrollTimeout = 2
  /\ pendingTimers = {2}

\* C25: once the form is unmounted no scroll timer is pending, and no step
\* after that runs a scroll callback
C25_NoScrollAfterUnmount ==
  /\ [](~mounted => pendingTimers = {})
  /\ [][~mounted => \A timer \in pendingTimers : ~scrollTimeoutFires(timer)]_vars

\* the form was unmounted after a submission
C25_Witness ==
  /\ ~mounted
  /\ Len(calls) >= 1
  /\ scrollTimeout = 0
  /\ pendingTimers = {}

\* C26: a timer that fires or is cancelled leaves the form's props and state,
\* the onAddProduct calls and the cart as they were, and what a submission
\* passes and leaves in the cart is computed from props, state and cart alone
C26_TimerUnrelatedToData ==
  [][/\ (\/ \E timer \in pendingTimers : scrollTimeoutFires(timer)
         \/ componentWillUnmount) =>
          UNCHANGED <<props, state, calls, products>>
     /\ (addProductFormSubmit /\ state["quantity"] # 0) =>
          LET lineItem == generateCartProduct(props, state["quantity"],
                                              selectedPropertyIndexesOf(state))
              key == generateProductKey(props.id, lineItem.properties)
          IN  /\ LastCall(calls') = [key |-> key, product |-> lineItem,
                                     currency |-> props.currency]
              /\ products' = addProduct(products, key, lineItem)]_vars

\* two submissions were made and the second one's timer has fired
C26_Witness ==
  /\ mounted
  /\ Len(calls) = 2
  /\ scrollTimeout = 2
  /\ pendingTimers = {}
  /\ products # <<>>

\* C22 as stated: in every currency c, listed in the product's price table or
\* not, the price the form shows for a selection equals the unit price Cart
\* shows for the line item that submitting the selection creates
C22_FormPriceIsCartPriceEveryCurrency ==
  result.fn = "displayedPrices" =>
    \A c \in Currencies : result.form[c] = result.cart[c]

\* C22, amended: in every currency of the product's price table the form's
\* price and Cart's unit price for the created line item are the same number,
\* whichever currency the form had at the add; in a currency the table does
\* not list the form shows NaN (undefined + cost) and Cart shows undefined
C22_FormPriceIsCartPrice ==
  result.fn = "displayedPrices" =>
    \A c \in Currencies :
      IF c \in Keys(args.product.prices)
        THEN /\ result.form[c] = result.cart[c]
             /\ result.form[c].t = "number"
             /\ result.form[c].s = ""
        ELSE /\ result.form[c] = NaNPrice
             /\ result.cart[c] = Undefined

\* the yellow case: 73.5 in USD and 50 in GBP in the form and in the cart,
\* for a form that was showing GBP
C22_Witness ==
  /\ result.fn = "displayedPrices"
  /\ args.currency = "GBP"
  /\ result.form["USD"] = Num(7350)
  /\ result.cart["USD"] = Num(7350)
  /\ result.cart["GBP"] = Num(5000)

\* C27: App's currency and the store's cart currency are equal in every state,
\* 'USD' at the start; a changeCurrency(c) leaves both at c and a language
\* change leaves both as they were
C27_AppAndStoreCurrencyAgree ==
  /\ [](/\ app.currency = store.currency
        /\ dispatched = <<>> => app.currency = "USD")
  /\ [][/\ \A c \in CurrencyInputs :
            changeCurrency(c) => app'.currency = c /\ store'.currency = c
        /\ \A lang \in LanguageInputs :
            changeLanguage(lang) =>
              app'.currency = app.currency /\ store'.currency = store.currency]_vars

\* after two currency changes and a switch to French both hold 'EUR'
C27_Witness ==
  /\ Len(dispatched) = 2
  /\ dispatched[1].currency = "GBP"
  /\ app.lang = "fr"
  /\ app.currency = "EUR"
  /\ store.currency = "EUR"

\* the currency code's and the product name's templates read no getter
TemplatesAcyclic ==
  \A id \in {props.currency, props.name} :
    \A i \in 1..Len(args.localization[id]) :
      args.localization[id][i].s \in LazyParameters => args.localization[id][i].lit

\* the places of the rendered templates that read a getter
LazyReferences ==
  {<<id, i>> \in {"price", "quantityLabel", "addToCart"} \X (1..4) :
     /\ i <= Len(args.localization[id])
     /\ ~args.localization[id][i].lit
     /\ args.localization[id][i].s \in LazyParameters}

\* C28: localizedCurrency and localizedName are computed lazily:
\* getLocalization(currency, scope) and getLocalization(name, scope) are called
\* exactly once per read of the getter by a template being formatted, so a
\* finished render has called them as many times as its three templates
\* reference the two parameters; and when the templates of the currency code
\* and of the product name reference neither parameter, rendering never
\* overflows the stack and ends with every template formatted.
C28_LazyParametersResolved ==
  /\ [](result.fn \in {"render", "rendered", "RangeError"} =>
          result.invoked =
            [i \in 1..Len(result.read) |-> result.scope[result.read[i]].get])
  /\ [](TemplatesAcyclic =>
          /\ result.fn # "RangeError"
          /\ result.fn = "rendered" =>
               Len(result.invoked) = Cardinality(LazyReferences))
  /\ (args.fn = "localization" /\ TemplatesAcyclic) ~> (result.fn = "rendered")

\* a finished render that read localizedCurrency and never localizedName
C28_Witness ==
  /\ result.fn = "rendered"
  /\ TemplatesAcyclic
  /\ result.read # <<>>
  /\ \A i \in 1..Len(result.read) : result.read[i] = "localizedCurrency"
  /\ result.invoked = [i \in 1..Len(result.read) |-> props.currency]

====
